---- MODULE Spec2Model ----
(***************************************************************************)
(* Model of package ncs (hajimehoshi/ncs): the NCS notation parser, its    *)
(* serializer and the NCS -> RGBA conversion.                              *)
(*                                                                         *)
(* A Go string is a sequence of one-character strings.  The functions of   *)
(* the package are operators over such sequences and over Color records;   *)
(* the state machine is a caller that invokes them.                        *)
(***************************************************************************)
EXTENDS Integers, Sequences, FiniteSets, TLC

VARIABLES pc, origin, str, color, err, panicked, text, again, rgba, frame, old

vars == <<pc, origin, str, color, err, panicked, text, again, rgba, frame, old>>

(***************************************************************************)
(* Bounds of the explored inputs.                                          *)
(***************************************************************************)
\* how many evenly spread two-digit values 00..99 the inputs are built from
NSamples == 16
\* arbitrary strings over Alphabet are explored up to this length
MaxShort == 2

(***************************************************************************)
(* Characters, strconv.Atoi and fmt.Sprintf("%02d").                       *)
(***************************************************************************)
DigitChars == <<"0", "1", "2", "3", "4", "5", "6", "7", "8", "9">>

\* the class \d of Go's regexp (RE2) syntax: ASCII digits only
IsDigit(ch) == \E i \in 1..10 : DigitChars[i] = ch

DigitVal(ch) == (CHOOSE i \in 1..10 : DigitChars[i] = ch) - 1

RECURSIVE atoiDigits(_, _)
atoiDigits(s, n) ==
    IF s = <<>> THEN n ELSE atoiDigits(Tail(s), n * 10 + DigitVal(Head(s)))

\* strconv.Atoi: an optional sign, then one or more decimal digits
Atoi(s) ==
    LET signed == s # <<>> /\ Head(s) \in {"+", "-"}
        body   == IF signed THEN Tail(s) ELSE s
    IN  IF body = <<>> \/ \E i \in 1..Len(body) : ~IsDigit(body[i])
        THEN [val |-> 0, err |-> TRUE]
        ELSE [val |-> (IF signed /\ Head(s) = "-" THEN -1 ELSE 1) * atoiDigits(body, 0),
              err |-> FALSE]

RECURSIVE itoa(_)
itoa(n) ==
    IF n < 10 THEN <<DigitChars[n + 1]>>
    ELSE itoa(n \div 10) \o <<DigitChars[(n % 10) + 1]>>

\* mutation: the verb %d, with no zero padding
SprintfD(n) ==
    IF n < 0 THEN <<"-">> \o itoa(-n) ELSE itoa(n)

\* fmt.Sprintf("%02d", n): decimal, zero-padded to a width of two (sign included)
Sprintf02d(n) ==
    IF n < 0 THEN <<"-">> \o itoa(-n)
    ELSE IF n < 10 THEN <<"0">> \o itoa(n)
    ELSE itoa(n)

(***************************************************************************)
(* type Color and the error values.                                        *)
(***************************************************************************)
Color(b, c, h) == [Blackness |-> b, Chromaticness |-> c, Hue |-> h]

ZeroColor == Color(0, 0, 0)

NilError == [nil |-> TRUE, msg |-> <<>>]

\* fmt.Errorf("ncs: invalid format: %s", str)
FormatError(s) == [nil |-> FALSE, msg |-> <<"ncs: invalid format: ">> \o s]

\* the *strconv.NumError of a failed Atoi
AtoiError(s) == [nil |-> FALSE, msg |-> <<"strconv.Atoi: parsing ">> \o s]

(***************************************************************************)
(* re = \A(\d{2})(\d{2})-(N|Y|R|B|G|Y\d{2}R|R\d{2}B|B\d{2}G|G\d{2}Y)\z     *)
(***************************************************************************)
\* \d{2} at position i
matchDigits2(s, i) == i + 1 <= Len(s) /\ IsDigit(s[i]) /\ IsDigit(s[i + 1])

\* the positions just after a match of group 3 that starts at position i
matchHue(s, i) ==
    { j \in i..(Len(s) + 1) :
        LET t == SubSeq(s, i, j - 1)
        IN  \/ Len(t) = 1 /\ t[1] \in {"N", "Y", "R", "B", "G"}
            \/ /\ Len(t) = 4
               /\ IsDigit(t[2]) /\ IsDigit(t[3])
               /\ \/ t[1] = "Y" /\ t[4] = "R"
                  \/ t[1] = "R" /\ t[4] = "B"
                  \/ t[1] = "B" /\ t[4] = "G"
                  \/ t[1] = "G" /\ t[4] = "Y" }

\* mutation: the pattern without its closing \z, so that a prefix may match
FindStringSubmatchNoEnd(s) ==
    IF /\ matchDigits2(s, 1) /\ matchDigits2(s, 3)
       /\ Len(s) >= 5 /\ s[5] = "-"
       /\ matchHue(s, 6) # {}
    THEN LET j == CHOOSE k \in matchHue(s, 6) : TRUE
         IN  [ok |-> TRUE,
              m  |-> <<SubSeq(s, 1, j - 1), SubSeq(s, 1, 2), SubSeq(s, 3, 4),
                       SubSeq(s, 6, j - 1)>>]
    ELSE [ok |-> FALSE, m |-> <<>>]

\* re.FindStringSubmatch(str): m[i] of the code is m[i + 1] here
FindStringSubmatch(s) ==
    IF /\ matchDigits2(s, 1) /\ matchDigits2(s, 3)
       /\ Len(s) >= 5 /\ s[5] = "-"
       /\ (Len(s) + 1) \in matchHue(s, 6)
    THEN [ok |-> TRUE,
          m  |-> <<s, SubSeq(s, 1, 2), SubSeq(s, 3, 4), SubSeq(s, 6, Len(s))>>]
    ELSE [ok |-> FALSE, m |-> <<>>]

(***************************************************************************)
(* func Parse(str string) (Color, error)        -- src/unnamed/part_000    *)
(***************************************************************************)
\* h, err = strconv.Atoi(m[3][1:3]); h += base
compositeHue(m3, c, base) ==
    LET a == Atoi(SubSeq(m3, 2, 3))
    IN  [c |-> c, h |-> a.val + base, err |-> a.err, reached |-> FALSE]

\* mutation: the R, B and G cases forget to add their base offset
hueSwitchNoBase(m3, c) ==
    IF m3 = <<"N">> THEN [c |-> 0, h |-> 0, err |-> FALSE, reached |-> FALSE]
    ELSE IF m3 = <<"Y">> THEN [c |-> c, h |-> 0, err |-> FALSE, reached |-> FALSE]
    ELSE IF m3 = <<"R">> THEN [c |-> c, h |-> 100, err |-> FALSE, reached |-> FALSE]
    ELSE IF m3 = <<"B">> THEN [c |-> c, h |-> 200, err |-> FALSE, reached |-> FALSE]
    ELSE IF m3 = <<"G">> THEN [c |-> c, h |-> 300, err |-> FALSE, reached |-> FALSE]
    ELSE IF m3[1] \in {"Y", "R", "B", "G"} THEN compositeHue(m3, c, 0)
    ELSE [c |-> c, h |-> 0, err |-> FALSE, reached |-> TRUE]

\* the switch over m[3]; reached is TRUE when its default branch runs
hueSwitch(m3, c) ==
    IF m3 = <<"N">> THEN [c |-> 0, h |-> 0, err |-> FALSE, reached |-> FALSE]
    ELSE IF m3 = <<"Y">> THEN [c |-> c, h |-> 0, err |-> FALSE, reached |-> FALSE]
    ELSE IF m3 = <<"R">> THEN [c |-> c, h |-> 100, err |-> FALSE, reached |-> FALSE]
    ELSE IF m3 = <<"B">> THEN [c |-> c, h |-> 200, err |-> FALSE, reached |-> FALSE]
    ELSE IF m3 = <<"G">> THEN [c |-> c, h |-> 300, err |-> FALSE, reached |-> FALSE]
    ELSE IF m3[1] = "Y" THEN compositeHue(m3, c, 0)
    ELSE IF m3[1] = "R" THEN compositeHue(m3, c, 100)
    ELSE IF m3[1] = "B" THEN compositeHue(m3, c, 200)
    ELSE IF m3[1] = "G" THEN compositeHue(m3, c, 300)
    ELSE [c |-> c, h |-> 0, err |-> FALSE, reached |-> TRUE]

\* mutation: the clamp is missing
clampOff(b, c) == c

\* mutation: the clamp is off by one
clampOffByOne(b, c) == IF c > 101 - b THEN 101 - b ELSE c

\* if c > 100-b { c = 100 - b }
clamp(b, c) == IF c > 100 - b THEN 100 - b ELSE c

\* mutation: the hue of a colour without chromaticness is kept
dropHueOff(c, h) == h

\* if c == 0 { h = 0 }
dropHue(c, h) == IF c = 0 THEN 0 ELSE h

Parse(s) ==
    LET f == FindStringSubmatch(s)
    IN  IF ~f.ok
        THEN [color |-> ZeroColor, err |-> FormatError(s), panic |-> FALSE]
        ELSE
        LET b == Atoi(f.m[2])
            c == Atoi(f.m[3])
        IN  IF b.err
            THEN [color |-> ZeroColor, err |-> AtoiError(f.m[2]), panic |-> FALSE]
            ELSE IF c.err
            THEN [color |-> ZeroColor, err |-> AtoiError(f.m[3]), panic |-> FALSE]
            ELSE
            LET sw == hueSwitch(f.m[4], c.val)
            IN  IF sw.reached \/ sw.err
                THEN [color |-> ZeroColor, err |-> NilError, panic |-> TRUE]
                ELSE
                LET c1 == clamp(b.val, sw.c)
                IN  [color |-> Color(b.val, c1, dropHue(c1, sw.h)),
                     err   |-> NilError,
                     panic |-> FALSE]

(***************************************************************************)
(* func Parse(str string), returning a pointer to Color -- src/ncs.go      *)
(* The earlier variant: Color has the fields hue and monochrome, and the   *)
(* switch over m[3] has no case for "N".                                   *)
(***************************************************************************)
hueSwitchNcsGo(m3) ==
    IF m3 = <<"Y">> THEN [h |-> 0, err |-> FALSE, reached |-> FALSE]
    ELSE IF m3 = <<"R">> THEN [h |-> 100, err |-> FALSE, reached |-> FALSE]
    ELSE IF m3 = <<"B">> THEN [h |-> 200, err |-> FALSE, reached |-> FALSE]
    ELSE IF m3 = <<"G">> THEN [h |-> 300, err |-> FALSE, reached |-> FALSE]
    ELSE IF m3[1] = "Y"
         THEN [h |-> Atoi(SubSeq(m3, 2, 3)).val,
               err |-> Atoi(SubSeq(m3, 2, 3)).err, reached |-> FALSE]
    ELSE IF m3[1] = "R"
         THEN [h |-> Atoi(SubSeq(m3, 2, 3)).val + 100,
               err |-> Atoi(SubSeq(m3, 2, 3)).err, reached |-> FALSE]
    ELSE IF m3[1] = "B"
         THEN [h |-> Atoi(SubSeq(m3, 2, 3)).val + 200,
               err |-> Atoi(SubSeq(m3, 2, 3)).err, reached |-> FALSE]
    ELSE IF m3[1] = "G"
         THEN [h |-> Atoi(SubSeq(m3, 2, 3)).val + 300,
               err |-> Atoi(SubSeq(m3, 2, 3)).err, reached |-> FALSE]
    ELSE [h |-> 0, err |-> FALSE, reached |-> TRUE]

ColorNcsGo(b, c, h, mono) ==
    [Blackness |-> b, Chromaticness |-> c, hue |-> h, monochrome |-> mono]

\* the result has isNil = TRUE where the code returns a nil *Color
ParseNcsGo(s) ==
    LET f    == FindStringSubmatch(s)
        none == ColorNcsGo(0, 0, 0, FALSE)
    IN  IF ~f.ok
        THEN [isNil |-> TRUE, color |-> none, err |-> FormatError(s), panic |-> FALSE]
        ELSE
        LET b == Atoi(f.m[2])
            c == Atoi(f.m[3])
        IN  IF b.err
            THEN [isNil |-> TRUE, color |-> none, err |-> AtoiError(f.m[2]),
                  panic |-> FALSE]
            ELSE IF c.err
            THEN [isNil |-> TRUE, color |-> none, err |-> AtoiError(f.m[3]),
                  panic |-> FALSE]
            ELSE
            LET sw == hueSwitchNcsGo(f.m[4])
            IN  IF sw.reached \/ sw.err
                THEN [isNil |-> TRUE, color |-> none, err |-> NilError, panic |-> TRUE]
                ELSE [isNil |-> FALSE,
                      color |-> ColorNcsGo(b.val, c.val, sw.h, f.m[4] = <<"N">>),
                      err   |-> NilError,
                      panic |-> FALSE]

(***************************************************************************)
(* func (c Color) String() string               -- src/unnamed/part_000    *)
(***************************************************************************)
\* mutation: the case for a hue of exactly 200 is missing
hueNameNoB(c) ==
    IF c.Chromaticness = 0 THEN <<"N">>
    ELSE IF c.Hue = 0 THEN <<"Y">>
    ELSE IF c.Hue = 100 THEN <<"R">>
    ELSE IF c.Hue = 300 THEN <<"G">>
    ELSE IF 0 < c.Hue /\ c.Hue < 100 THEN <<"Y">> \o Sprintf02d(c.Hue) \o <<"R">>
    ELSE IF 100 < c.Hue /\ c.Hue < 200 THEN <<"R">> \o Sprintf02d(c.Hue - 100) \o <<"B">>
    ELSE IF 200 < c.Hue /\ c.Hue < 300 THEN <<"B">> \o Sprintf02d(c.Hue - 200) \o <<"G">>
    ELSE IF 300 < c.Hue /\ c.Hue < 400 THEN <<"G">> \o Sprintf02d(c.Hue - 300) \o <<"Y">>
    ELSE <<"?">>

\* the switch that names the hue; "?" is the value hue starts with
hueName(c) ==
    IF c.Chromaticness = 0 THEN <<"N">>
    ELSE IF c.Hue = 0 THEN <<"Y">>
    ELSE IF c.Hue = 100 THEN <<"R">>
    ELSE IF c.Hue = 200 THEN <<"B">>
    ELSE IF c.Hue = 300 THEN <<"G">>
    ELSE IF 0 < c.Hue /\ c.Hue < 100 THEN <<"Y">> \o Sprintf02d(c.Hue) \o <<"R">>
    ELSE IF 100 < c.Hue /\ c.Hue < 200 THEN <<"R">> \o Sprintf02d(c.Hue - 100) \o <<"B">>
    ELSE IF 200 < c.Hue /\ c.Hue < 300 THEN <<"B">> \o Sprintf02d(c.Hue - 200) \o <<"G">>
    ELSE IF 300 < c.Hue /\ c.Hue < 400 THEN <<"G">> \o Sprintf02d(c.Hue - 300) \o <<"Y">>
    ELSE <<"?">>

\* fmt.Sprintf("%02d%02d-%s", c.Blackness, c.Chromaticness, hue)
String(c) ==
    Sprintf02d(c.Blackness) \o Sprintf02d(c.Chromaticness) \o <<"-">> \o hueName(c)

(***************************************************************************)
(* func (c Color) RGBA() (r, g, b, a uint32)    -- src/unnamed/part_000    *)
(***************************************************************************)
\* mutation: the channels are 8 bits wide
U8(x) == x % 256

\* a value of type uint16
U16(x) == x % 65536

RGB(r, g, b) == [r |-> r, g |-> g, b |-> b]

yellow == RGB(255, 211, 0)
red    == RGB(196, 2, 51)
blue   == RGB(0, 135, 189)
green  == RGB(0, 159, 107)

\* a *rgb that was never assigned
nilRGB == RGB(-1, -1, -1)

\* mutation: the gray level is computed in 16 bits
gray16(bl) == U16(U16(100 - bl) * 65535) \div 100

\* uint32(100-c.Blackness) * 0xffff / 100.  A uint32 is held as two 16-bit halves:
\* x * 0xffff is (x << 16) - x modulo 2^32, and the division is a long division.
gray(bl) ==
    LET xl == (100 - bl) % 65536
        xh == ((100 - bl) \div 65536) % 65536
        pl == (0 - xl) % 65536
        ph == (xl - xh - (IF xl > 0 THEN 1 ELSE 0)) % 65536
    IN  (ph \div 100) * 65536 + (((ph % 100) * 65536 + pl) \div 100)

\* the switch over c.Hue: the two reference colours and the position between them
hueBand(h) ==
    IF 0 <= h /\ h < 100 THEN [c0 |-> yellow, c1 |-> red, v |-> U16(h)]
    ELSE IF 100 <= h /\ h < 200 THEN [c0 |-> red, c1 |-> blue, v |-> U16(h - 100)]
    ELSE IF 200 <= h /\ h < 300 THEN [c0 |-> blue, c1 |-> green, v |-> U16(h - 200)]
    ELSE IF 300 <= h /\ h < 400 THEN [c0 |-> green, c1 |-> yellow, v |-> U16(h - 300)]
    ELSE [c0 |-> nilRGB, c1 |-> nilRGB, v |-> 0]

\* (x*(n-k) + y*k) / n in uint16 arithmetic
mix(x, y, k, n) == U16(U16(x * U16(n - k)) + U16(y * k)) \div n

\* x * ch / 100 in uint16 arithmetic
scale(x, ch) == U16(x * ch) \div 100

noRGB == RGB(0, 0, 0)

\* the locals of a call that returned from its first statement
monoFrame ==
    [path |-> "mono", c0 |-> nilRGB, c1 |-> nilRGB, v |-> 0, c2 |-> noRGB, ch |-> 0,
     cw |-> noRGB, cb |-> noRGB, bl |-> 0, blmax |-> 0, c4 |-> noRGB]

\* ret is <<r, g, b, a>>; frame holds the locals and the return statement taken
RGBA(c) ==
    IF c.Chromaticness = 0
    THEN [ret |-> <<gray(c.Blackness), gray(c.Blackness), gray(c.Blackness), 65535>>,
          frame |-> monoFrame]
    ELSE
    LET band == hueBand(c.Hue)
    IN  IF band.c0 = nilRGB
        THEN [ret |-> <<0, 0, 0, 0>>, frame |-> [monoFrame EXCEPT !.path = "nil"]]
        ELSE
        LET c0 == band.c0
            c1 == band.c1
            v  == band.v
            c2 == RGB(mix(c0.r, c1.r, v, 100), mix(c0.g, c1.g, v, 100),
                      mix(c0.b, c1.b, v, 100))
            ch == U16(c.Chromaticness)
            cw == RGB(mix(255, c2.r, ch, 100), mix(255, c2.g, ch, 100),
                      mix(255, c2.b, ch, 100))
            cb == RGB(scale(c2.r, ch), scale(c2.g, ch), scale(c2.b, ch))
            bl == U16(c.Blackness)
            blmax == U16(100 - ch)
            fr == [path |-> "", c0 |-> c0, c1 |-> c1, v |-> v, c2 |-> c2, ch |-> ch,
                   cw |-> cw, cb |-> cb, bl |-> bl, blmax |-> blmax, c4 |-> noRGB]
        IN  IF blmax = 0
            THEN [ret |-> <<cw.r * 257, cw.g * 257, cw.b * 257, 65535>>,
                  frame |-> [fr EXCEPT !.path = "blmax0"]]
            ELSE IF bl > blmax
            THEN [ret |-> <<0, 0, 0, 65535>>, frame |-> [fr EXCEPT !.path = "black"]]
            ELSE
            LET c4 == RGB(mix(cw.r, cb.r, bl, blmax), mix(cw.g, cb.g, bl, blmax),
                          mix(cw.b, cb.b, bl, blmax))
            IN  [ret |-> <<c4.r * 257, c4.g * 257, c4.b * 257, 65535>>,
                 frame |-> [fr EXCEPT !.path = "blend", !.c4 = c4]]

(***************************************************************************)
(* The inputs the caller draws from.                                       *)
(***************************************************************************)
Digits == {DigitChars[i] : i \in 1..10}

\* digits, the separator, the hue letters, and characters the grammar has no use for
Alphabet == Digits \cup {"-", "N", "Y", "R", "B", "G", "y", "X", "+", " "}

\* the values at the ends and in the middle of the two-digit range
EdgeValues == {0, 1, 50, 98, 99}

Numerals ==
    {(i * 99) \div (NSamples - 1) : i \in 0..(NSamples - 1)} \cup EdgeValues

Numeral(n) == <<DigitChars[(n \div 10) + 1], DigitChars[(n % 10) + 1]>>

HueLetters == {<<"N">>, <<"Y">>, <<"R">>, <<"B">>, <<"G">>}

HuePairs == {<<"Y", "R">>, <<"R", "B">>, <<"B", "G">>, <<"G", "Y">>}

HueSuffixes ==
    HueLetters \cup {<<p[1]>> \o Numeral(n) \o <<p[2]>> : p \in HuePairs, n \in Numerals}

WellFormedInputs ==
    {Numeral(b) \o Numeral(c) \o <<"-">> \o h :
        b \in Numerals, c \in Numerals, h \in HueSuffixes}

\* the inputs of TestParse
TestInputs ==
    { <<"3", "0", "1", "0", "-", "Y", "1", "0", "R">>,
      <<"3", "0", "3", "0", "-", "Y", "1", "0", "R">>,
      <<"3", "0", "8", "0", "-", "Y", "1", "0", "R">>,
      <<"4", "0", "2", "0", "-", "B">>,
      <<"3", "0", "2", "0", "-", "B", "5", "0", "G">>,
      <<"9", "9", "1", "0", "-", "B", "5", "0", "G">>,
      <<"3", "0", "0", "0", "-", "N">>,
      <<"3", "0", "0", "0", "-", "Y", "1", "0", "R">>,
      <<"3", "0", "2", "0", "-", "N">> }

\* one-character edits of the test inputs: a character replaced, dropped or added
Edits(s) ==
    UNION { {[s EXCEPT ![i] = ch] : ch \in Alphabet} : i \in 1..Len(s) }
    \cup {SubSeq(s, 1, i - 1) \o SubSeq(s, i + 1, Len(s)) : i \in 1..Len(s)}
    \cup UNION { {SubSeq(s, 1, i) \o <<ch>> \o SubSeq(s, i + 1, Len(s)) : ch \in Alphabet} :
                 i \in 0..Len(s) }

ShortStrings == UNION {[1..n -> Alphabet] : n \in 0..MaxShort}

Inputs ==
    WellFormedInputs \cup TestInputs \cup UNION {Edits(s) : s \in TestInputs}
    \cup ShortStrings

HueValues == {base + n : base \in {0, 100, 200, 300}, n \in Numerals}

\* Color literals within the documented ranges of the fields
RangedLiterals ==
    {l \in {Color(b, c, h) : b \in Numerals, c \in {x \in Numerals : x > 0},
                             h \in HueValues} :
        l.Chromaticness <= 100 - l.Blackness}
    \cup {Color(b, 0, h) : b \in 0..99, h \in {0, 250}}

\* Color literals outside those ranges, which the language does not forbid
UnrangedLiterals ==
    {Color(50, 60, 10), Color(0, 100, 0), Color(0, 100, 399), Color(10, 20, 400),
     Color(99, 99, 150), Color(30, 10, -1)}

Literals == RangedLiterals \cup UnrangedLiterals

(***************************************************************************)
(* The caller.                                                             *)
(***************************************************************************)
NoResult == [color |-> ZeroColor, err |-> NilError, panic |-> FALSE]

NoResultNcsGo ==
    [isNil |-> TRUE, color |-> ColorNcsGo(0, 0, 0, FALSE), err |-> NilError,
     panic |-> FALSE]

Init ==
    /\ pc = "idle"
    /\ origin = "none"
    /\ str = <<>>
    /\ color = ZeroColor
    /\ err = NilError
    /\ panicked = FALSE
    /\ text = <<>>
    /\ again = NoResult
    /\ rgba = <<0, 0, 0, 0>>
    /\ frame = [monoFrame EXCEPT !.path = "none"]
    /\ old = NoResultNcsGo

\* got, err := Parse(c.In)
CallParse ==
    /\ pc = "idle"
    /\ \E s \in Inputs :
        LET r == Parse(s)
        IN  /\ str' = s
            /\ color' = r.color
            /\ err' = r.err
            /\ panicked' = r.panic
    /\ origin' = "Parse"
    /\ pc' = "parsed"
    /\ UNCHANGED <<text, again, rgba, frame, old>>

\* a Color written as a composite literal, as TestParse writes its expectations
Literal ==
    /\ pc = "idle"
    /\ \E c \in Literals : color' = c
    /\ origin' = "literal"
    /\ pc' = "parsed"
    /\ UNCHANGED <<str, err, panicked, text, again, rgba, frame, old>>

\* want.String()
CallString ==
    /\ pc = "parsed"
    /\ err.nil /\ ~panicked
    /\ text' = String(color)
    /\ pc' = "printed"
    /\ UNCHANGED <<origin, str, color, err, panicked, again, rgba, frame, old>>

\* Parse applied to the text String returned
CallParseAgain ==
    /\ pc = "printed"
    /\ again' = Parse(text)
    /\ pc' = "reparsed"
    /\ UNCHANGED <<origin, str, color, err, panicked, text, rgba, frame, old>>

\* c.RGBA()
CallRGBA ==
    /\ pc = "parsed"
    /\ err.nil /\ ~panicked
    /\ LET r == RGBA(color)
       IN  rgba' = r.ret /\ frame' = r.frame
    /\ pc' = "converted"
    /\ UNCHANGED <<origin, str, color, err, panicked, text, again, old>>

\* Parse of src/ncs.go
CallParseNcsGo ==
    /\ pc = "idle"
    /\ \E s \in Inputs : str' = s /\ old' = ParseNcsGo(s)
    /\ origin' = "ParseNcsGo"
    /\ pc' = "parsedNcsGo"
    /\ UNCHANGED <<color, err, panicked, text, again, rgba, frame>>

Next ==
    \/ CallParse
    \/ Literal
    \/ CallString
    \/ CallParseAgain
    \/ CallRGBA
    \/ CallParseNcsGo

Spec == Init /\ [][Next]_vars

(***************************************************************************)
(* The grammar and the data model, as the documentation states them.       *)
(***************************************************************************)
TwoDigits == {<<a, b>> : a \in Digits, b \in Digits}

GrammarHues ==
    HueLetters \cup {<<p[1], a, b, p[2]>> : p \in HuePairs, a \in Digits, b \in Digits}

\* two digits, two digits, -, then N | Y | R | B | G | Y##R | R##B | B##G | G##Y
InGrammar(s) ==
    /\ Len(s) >= 6
    /\ SubSeq(s, 1, 2) \in TwoDigits
    /\ SubSeq(s, 3, 4) \in TwoDigits
    /\ s[5] = "-"
    /\ SubSeq(s, 6, Len(s)) \in GrammarHues

\* the number a two-digit numeral denotes
ValueOf(d) == CHOOSE n \in 0..99 : Numeral(n) = d

FieldBB(s) == ValueOf(SubSeq(s, 1, 2))
FieldCC(s) == ValueOf(SubSeq(s, 3, 4))
FieldH(s)  == SubSeq(s, 6, Len(s))

Min(a, b) == IF a < b THEN a ELSE b

\* the ranges of the fields of a Color
InRange(c) ==
    /\ 0 <= c.Blackness /\ c.Blackness <= 99
    /\ 0 <= c.Chromaticness /\ c.Chromaticness <= Min(100 - c.Blackness, 99)
    /\ 0 <= c.Hue /\ c.Hue <= 399

\* Parse has returned for a string of the grammar
ParsedValid == origin = "Parse" /\ pc # "idle" /\ InGrammar(str)

(***************************************************************************)
(* C1.  For every string of the grammar Parse succeeds, and the Color it   *)
(* returns has 0 <= Blackness <= 99, 0 <= Chromaticness <= 100 - Blackness,*)
(* Chromaticness <= 99 and 0 <= Hue <= 399.                                *)
(***************************************************************************)
ParseRangeInvariants ==
    ParsedValid =>
        /\ err.nil /\ ~panicked
        /\ 0 <= color.Blackness /\ color.Blackness <= 99
        /\ 0 <= color.Chromaticness /\ color.Chromaticness <= 100 - color.Blackness
        /\ color.Chromaticness <= 99
        /\ 0 <= color.Hue /\ color.Hue <= 399

\* an over-range chromaticness with the largest hue was parsed
ParseRangeWitness ==
    /\ ParsedValid
    /\ FieldCC(str) > 100 - FieldBB(str)
    /\ color.Chromaticness = 100 - color.Blackness
    /\ color.Hue = 399

(***************************************************************************)
(* C2.  As claimed: for every Color Parse returns for a string of the      *)
(* grammar, Chromaticness = 0 if and only if Hue = 0.                      *)
(***************************************************************************)
HueZeroIffChromaticnessZero ==
    ParsedValid => ((color.Chromaticness = 0) <=> (color.Hue = 0))

(***************************************************************************)
(* C2, amended.  Chromaticness = 0 implies Hue = 0; Hue = 0 holds exactly  *)
(* when Chromaticness = 0 or the hue suffix is Y or Y00R.                  *)
(***************************************************************************)
ChromaticnessZeroImpliesHueZero ==
    ParsedValid =>
        /\ color.Chromaticness = 0 => color.Hue = 0
        /\ color.Hue = 0 <=>
              \/ color.Chromaticness = 0
              \/ FieldH(str) \in {<<"Y">>, <<"Y", "0", "0", "R">>}

\* a hue was written on a chromaticness of zero, and dropped
HueDroppedWitness ==
    /\ ParsedValid
    /\ FieldCC(str) = 0
    /\ FieldH(str) = <<"B", "5", "0", "G">>
    /\ color.Chromaticness = 0 /\ color.Hue = 0

(***************************************************************************)
(* C3.  Round trip: for every Color c that Parse returns for a string of   *)
(* the grammar, Parse(c.String()) succeeds and returns a Color equal to c  *)
(* field by field.                                                         *)
(***************************************************************************)
RoundTrip ==
    (ParsedValid /\ pc = "reparsed") =>
        /\ again.err.nil /\ ~again.panic
        /\ again.color.Blackness = color.Blackness
        /\ again.color.Chromaticness = color.Chromaticness
        /\ again.color.Hue = color.Hue

\* the round trip of an input with a clamped chromaticness and composite digits 00
RoundTripWitness ==
    /\ ParsedValid /\ pc = "reparsed"
    /\ FieldCC(str) > 100 - FieldBB(str)
    /\ FieldH(str) = <<"R", "0", "0", "B">>
    /\ text # str
    /\ again.color = color

(***************************************************************************)
(* C4.  Parse returns a non-nil error exactly when the whole input is not  *)
(* a string of the grammar; then the Color is the zero value and the       *)
(* message ends with the input; for a string of the grammar the error is   *)
(* nil.                                                                    *)
(***************************************************************************)
ErrorIffNotInGrammar ==
    (origin = "Parse" /\ pc # "idle") =>
        /\ ~panicked
        /\ (~err.nil) <=> ~InGrammar(str)
        /\ ~InGrammar(str) =>
              /\ color = ZeroColor
              /\ Len(err.msg) > Len(str)
              /\ SubSeq(err.msg, Len(err.msg) - Len(str) + 1, Len(err.msg)) = str

\* an input with a wrong pair of letters was refused
WrongPairWitness ==
    /\ origin = "Parse" /\ pc = "parsed"
    /\ str = <<"3", "0", "1", "0", "-", "Y", "1", "0", "B">>
    /\ ~err.nil
    /\ color = ZeroColor

(***************************************************************************)
(* C5.  For every string BBCC-H of the grammar Parse returns Blackness =   *)
(* BB; Chromaticness = 0 when H is N, otherwise min(CC, 100 - BB); Hue = 0 *)
(* when that Chromaticness is 0, otherwise 0/100/200/300 for Y/R/B/G and   *)
(* base(lead letter) + ## for the composite forms.  In particular          *)
(* 3080-Y10R gives {30,70,10}, 9910-B50G gives {99,1,250}, 3000-Y10R gives *)
(* {30,0,0} and 3020-N gives {30,0,0}.                                     *)
(***************************************************************************)
BaseOf(letter) ==
    CASE letter = "Y" -> 0 [] letter = "R" -> 100 [] letter = "B" -> 200
      [] letter = "G" -> 300

ReferenceChromaticness(s) ==
    IF FieldH(s) = <<"N">> THEN 0 ELSE Min(FieldCC(s), 100 - FieldBB(s))

ReferenceHue(s) ==
    IF ReferenceChromaticness(s) = 0 THEN 0
    ELSE IF Len(FieldH(s)) = 1 THEN BaseOf(FieldH(s)[1])
    ELSE BaseOf(FieldH(s)[1]) + ValueOf(SubSeq(FieldH(s), 2, 3))

ParseEqualsReference ==
    /\ ParsedValid =>
          /\ err.nil
          /\ color = Color(FieldBB(str), ReferenceChromaticness(str), ReferenceHue(str))
    /\ (origin = "Parse" /\ pc # "idle") =>
          /\ str = <<"3", "0", "8", "0", "-", "Y", "1", "0", "R">> => color = Color(30, 70, 10)
          /\ str = <<"9", "9", "1", "0", "-", "B", "5", "0", "G">> => color = Color(99, 1, 250)
          /\ str = <<"3", "0", "0", "0", "-", "Y", "1", "0", "R">> => color = Color(30, 0, 0)
          /\ str = <<"3", "0", "2", "0", "-", "N">> => color = Color(30, 0, 0)

\* the extreme clamp of the tests was parsed
ExtremeClampWitness ==
    /\ origin = "Parse" /\ pc = "parsed"
    /\ str = <<"9", "9", "1", "0", "-", "B", "5", "0", "G">>
    /\ color = Color(99, 1, 250)

(***************************************************************************)
(* C6.  For every Color within the ranges of the data model (and so for    *)
(* every Color Parse returns) String returns a string of the grammar: the  *)
(* blackness and the chromaticness as two zero-padded digits, -, then N    *)
(* when Chromaticness = 0, Y/R/B/G when Hue is 0/100/200/300, otherwise    *)
(* lead letter, Hue mod 100 as two digits, trail letter of the enclosing   *)
(* band; never the placeholder "?".                                        *)
(***************************************************************************)
LeadLetters  == <<"Y", "R", "B", "G">>
TrailLetters == <<"R", "B", "G", "Y">>

CanonicalHue(c) ==
    IF c.Chromaticness = 0 THEN <<"N">>
    ELSE IF c.Hue % 100 = 0 THEN <<LeadLetters[(c.Hue \div 100) + 1]>>
    ELSE <<LeadLetters[(c.Hue \div 100) + 1]>> \o Numeral(c.Hue % 100)
         \o <<TrailLetters[(c.Hue \div 100) + 1]>>

StringIsCanonical ==
    (pc \in {"printed", "reparsed"} /\ InRange(color)) =>
        /\ InGrammar(text)
        /\ text = Numeral(color.Blackness) \o Numeral(color.Chromaticness) \o <<"-">>
                  \o CanonicalHue(color)
        /\ \A i \in 1..Len(text) : text[i] # "?"

\* a literal Color of the last band with a one-digit blackness was printed
StringBandWitness ==
    /\ origin = "literal" /\ pc = "printed"
    /\ color.Blackness = 1 /\ color.Chromaticness > 0 /\ color.Hue = 301
    /\ Len(text) = 9 /\ text[1] = "0" /\ text[6] = "G" /\ text[9] = "Y"

(***************************************************************************)
(* C7.  As claimed: for every Color with Chromaticness = 0 and Blackness   *)
(* in 0..99, RGBA returns r = g = b = the integer nearest to               *)
(* (100 - Blackness) * 65535 / 100, and a = 0xFFFF.                        *)
(***************************************************************************)
Abs(x) == IF x < 0 THEN -x ELSE x

MonochromeCall ==
    /\ pc = "converted" /\ color.Chromaticness = 0
    /\ 0 <= color.Blackness /\ color.Blackness <= 99

MonochromeIsNearest ==
    MonochromeCall =>
        /\ rgba[1] = rgba[2] /\ rgba[2] = rgba[3] /\ rgba[4] = 65535
        /\ 2 * Abs(100 * rgba[1] - (100 - color.Blackness) * 65535) <= 100

(***************************************************************************)
(* C7, amended.  For every Color with Chromaticness = 0 and Blackness in   *)
(* 0..99, RGBA returns r = g = b = (100 - Blackness) * 65535 / 100 rounded *)
(* down, and a = 0xFFFF.                                                   *)
(***************************************************************************)
MonochromeIsTruncated ==
    MonochromeCall =>
        /\ rgba[1] = rgba[2] /\ rgba[2] = rgba[3] /\ rgba[4] = 65535
        /\ 100 * rgba[1] <= (100 - color.Blackness) * 65535
        /\ (100 - color.Blackness) * 65535 < 100 * (rgba[1] + 1)

\* the gray of blackness 98, whose exact value 1310.7 is nearer to 1311
MonochromeWitness ==
    /\ MonochromeCall
    /\ color.Blackness = 98
    /\ rgba = <<1310, 1310, 1310, 65535>>

(***************************************************************************)
(* C8.  As claimed: in both variants of Parse (src/ncs.go and              *)
(* src/unnamed/part_000), for every string of the grammar Parse returns    *)
(* with a nil error and runs neither panic("not reached").                 *)
(***************************************************************************)
NotReachedIsUnreachable ==
    /\ ParsedValid => (~panicked /\ err.nil)
    /\ (origin = "ParseNcsGo" /\ pc = "parsedNcsGo" /\ InGrammar(str)) =>
          (~old.panic /\ old.err.nil /\ ~old.isNil)

(***************************************************************************)
(* C9.  For every Color Parse returns with Chromaticness > 0, RGBA selects *)
(* one of the four hue bands (c0 and c1 are assigned), blmax = 100 -       *)
(* Chromaticness lies in 1..99, neither the blmax == 0 branch nor the      *)
(* Blackness > blmax branch is taken, and the result is                    *)
(* (cw*(blmax - bl) + cb*bl) / blmax per channel, times 0x101.             *)
(***************************************************************************)
ReferenceColours == {yellow, red, blue, green}

Blend(x, y, k, n) == (x * (n - k) + y * k) \div n

DefensivePathsDead ==
    (origin = "Parse" /\ pc = "converted" /\ color.Chromaticness > 0) =>
        LET blmax == 100 - color.Chromaticness
            bl    == color.Blackness
        IN  /\ frame.c0 \in ReferenceColours /\ frame.c1 \in ReferenceColours
            /\ frame.blmax = blmax
            /\ blmax >= 1 /\ blmax <= 99
            /\ bl <= blmax
            /\ frame.path = "blend"
            /\ rgba = << 257 * Blend(frame.cw.r, frame.cb.r, bl, blmax),
                         257 * Blend(frame.cw.g, frame.cb.g, bl, blmax),
                         257 * Blend(frame.cw.b, frame.cb.b, bl, blmax),
                         65535 >>

\* a parsed Color whose blackness is the largest its chromaticness allows
BlacknessAtMaxWitness ==
    /\ origin = "Parse" /\ pc = "converted"
    /\ color.Chromaticness > 0 /\ color.Blackness > 0
    /\ color.Blackness = frame.blmax
    /\ frame.path = "blend"

(***************************************************************************)
(* C10.  For every Color within the ranges of the data model with          *)
(* Chromaticness > 0, no uint16 expression of RGBA wraps around: the       *)
(* numerators of c2, cw, cb and c4 and the differences 100 - v, 100 - ch   *)
(* and blmax - bl stay within 0..65535; c2, cw, cb and c4 lie in 0..255    *)
(* with cb <= c4 <= cw per channel; each of r, g, b is a multiple of 0x101 *)
(* within 0..0xFFFF, and a = 0xFFFF.                                       *)
(***************************************************************************)
Fits16(x) == 0 <= x /\ x <= 65535
Fits8(x)  == 0 <= x /\ x <= 255

ChannelNoWrap(k, i) ==
    LET v  == color.Hue % 100
        ch == color.Chromaticness
        bl == color.Blackness
        blmax == 100 - ch
        n2 == frame.c0[k] * (100 - v) + frame.c1[k] * v
        nw == 255 * (100 - ch) + frame.c2[k] * ch
        nb == frame.c2[k] * ch
        n4 == frame.cw[k] * (blmax - bl) + frame.cb[k] * bl
    IN  /\ frame.v = v /\ frame.ch = ch /\ frame.bl = bl /\ frame.blmax = blmax
        /\ Fits16(100 - v) /\ Fits16(100 - ch) /\ Fits16(blmax - bl)
        /\ Fits16(frame.c0[k] * (100 - v)) /\ Fits16(frame.c1[k] * v) /\ Fits16(n2)
        /\ Fits16(255 * (100 - ch)) /\ Fits16(nb) /\ Fits16(nw)
        /\ Fits16(frame.cw[k] * (blmax - bl)) /\ Fits16(frame.cb[k] * bl) /\ Fits16(n4)
        /\ frame.c2[k] = n2 \div 100 /\ Fits8(frame.c2[k])
        /\ frame.cw[k] = nw \div 100 /\ Fits8(frame.cw[k])
        /\ frame.cb[k] = nb \div 100 /\ Fits8(frame.cb[k])
        /\ frame.c4[k] = n4 \div blmax /\ Fits8(frame.c4[k])
        /\ frame.cb[k] <= frame.c4[k] /\ frame.c4[k] <= frame.cw[k]
        /\ rgba[i] = 257 * frame.c4[k]
        /\ rgba[i] % 257 = 0 /\ Fits16(rgba[i])

NoWrapAround ==
    (pc = "converted" /\ InRange(color) /\ color.Chromaticness > 0) =>
        /\ frame.path = "blend"
        /\ ChannelNoWrap("r", 1) /\ ChannelNoWrap("g", 2) /\ ChannelNoWrap("b", 3)
        /\ rgba[4] = 65535

\* a literal Color at the end of the last band with the largest chromaticness
NoWrapWitness ==
    /\ origin = "literal" /\ pc = "converted"
    /\ color = Color(1, 99, 399)
    /\ frame.path = "blend"
    /\ frame.c4.r > 0

====
